---------------------------- MODULE Spec2Model ----------------------------
(* A model of tap-google-sheets: identifier resolution (utils.py), the     *)
(* A1 first-line range calculation, schema inference and stream discovery  *)
(* (tap.py), and row normalisation with schema re-publication (streams.py).*)
(* Python strings are sequences of one-character strings.                  *)
EXTENDS Integers, Sequences, FiniteSets, TLC

VARIABLES
    sheet_range,      \* get_first_line_range: stream_config.get("range")
    first_line,       \* get_first_line_range: its outcome
    input_string,     \* get_parsed_sheet_id: its argument
    parsed_id,        \* get_parsed_sheet_id: its outcome
    headings,         \* the header row, values[0] of a response
    row_values,       \* one data row of a response
    metadata,         \* the stream's catalog metadata
    stream_schema,    \* get_schema: its outcome for the header row
    row_record,       \* parse_response: the record built from the row
    response,         \* parse_response: the JSON body of its response
    gen_pc,           \* parse_response: where the generator stands
    data_rows,        \* parse_response: the records built
    stream_maps,      \* the stream's maps, [stream_alias, transformed_schema]
    schema_messages,  \* the schema messages written, in order
    yielded,          \* the records the generator has yielded, in order
    config,           \* the tap's configuration
    disc_pc,          \* discover_streams: where the run stands
    idx,              \* discover_streams: the entry of "sheets" being processed
    stream_name,      \* discover_streams: the current entry's stream name
    google_sheet_data,\* discover_streams: the current entry's header response
    entry_schema,     \* discover_streams: the current entry's schema
    streams,          \* the streams discovered so far, in order
    requests,         \* the HTTP requests issued so far, in order
    error             \* the exception that ended the run, or None

rangeVars == <<sheet_range, first_line>>
resolveVars == <<input_string, parsed_id>>
rowVars == <<headings, row_values, metadata, stream_schema, row_record>>
parseVars == <<response, gen_pc, data_rows, stream_maps, schema_messages, yielded>>
discVars == <<config, disc_pc, idx, stream_name, google_sheet_data, entry_schema,
              streams, requests, error>>
vars == <<rangeVars, resolveVars, rowVars, parseVars, discVars>>

(***************************************************************************)
(* Values                                                                  *)
(***************************************************************************)
\* Python's None, and the state of a call that has not been made yet.
None == [tag |-> "None"]
Pending == [tag |-> "pending"]
\* A value returned, and an exception raised.
Ok(v) == [tag |-> "ok", val |-> v]
Some(v) == [tag |-> "some", val |-> v]
Raised(e) == [tag |-> "raised", exc |-> e]

Letters ==
    {"A", "B", "C", "D", "E", "F", "G", "H", "I", "J", "K", "L", "M",
     "N", "O", "P", "Q", "R", "S", "T", "U", "V", "W", "X", "Y", "Z",
     "a", "b", "c", "d", "e", "f", "g", "h", "i", "j", "k", "l", "m",
     "n", "o", "p", "q", "r", "s", "t", "u", "v", "w", "x", "y", "z"}
Digits == {"0", "1", "2", "3", "4", "5", "6", "7", "8", "9"}
Whitespace == {" ", "\n", "\t"}

\* All sequences over S of length at most n.
SeqsUpTo(S, n) == UNION {[1..k -> S] : k \in 0..n}

\* s[from..], the Python slice s[from-1:].
Drop(s, from) == IF from > Len(s) THEN <<>> ELSE SubSeq(s, from, Len(s))

\* The length of the longest prefix of s whose characters are all in cls.
RECURSIVE RunLen(_, _)
RunLen(s, cls) ==
    IF s = <<>> \/ Head(s) \notin cls THEN 0 ELSE 1 + RunLen(Tail(s), cls)

(***************************************************************************)
(* int() and str() on decimal strings                                      *)
(***************************************************************************)
DigitVal(c) ==
    CASE c = "0" -> 0 [] c = "1" -> 1 [] c = "2" -> 2 [] c = "3" -> 3
      [] c = "4" -> 4 [] c = "5" -> 5 [] c = "6" -> 6 [] c = "7" -> 7
      [] c = "8" -> 8 [] c = "9" -> 9

DigitChar(n) == CHOOSE c \in Digits : DigitVal(c) = n

\* int(s) for a non-empty string of decimal digits.
RECURSIVE ToInt(_)
ToInt(s) == IF s = <<>> THEN 0 ELSE 10 * ToInt(SubSeq(s, 1, Len(s) - 1)) + DigitVal(s[Len(s)])

\* str(n) for n >= 0.
RECURSIVE Str(_)
Str(n) == IF n < 10 THEN <<DigitChar(n)>> ELSE Str(n \div 10) \o <<DigitChar(n % 10)>>

(***************************************************************************)
(* TapGoogleSheets.get_first_line_range                                    *)
(***************************************************************************)
MaxColumnLetters == 3
MaxLineDigits == 7

\* The eight patterns, in order. Each is ^(g1)(g2)[:](g3)(g4)$ where a group
\* is [A-Za-z]{1,3}, \d{1,7} or empty.
a1_allowed_regexp == <<
    [sc |-> TRUE,  sl |-> TRUE,  colon |-> FALSE, ec |-> FALSE, el |-> FALSE],
    [sc |-> TRUE,  sl |-> FALSE, colon |-> TRUE,  ec |-> TRUE,  el |-> FALSE],
    [sc |-> FALSE, sl |-> TRUE,  colon |-> TRUE,  ec |-> FALSE, el |-> TRUE],
    [sc |-> TRUE,  sl |-> TRUE,  colon |-> TRUE,  ec |-> FALSE, el |-> TRUE],
    [sc |-> TRUE,  sl |-> TRUE,  colon |-> TRUE,  ec |-> TRUE,  el |-> FALSE],
    [sc |-> TRUE,  sl |-> TRUE,  colon |-> TRUE,  ec |-> TRUE,  el |-> TRUE],
    [sc |-> TRUE,  sl |-> FALSE, colon |-> TRUE,  ec |-> TRUE,  el |-> TRUE],
    [sc |-> FALSE, sl |-> TRUE,  colon |-> TRUE,  ec |-> TRUE,  el |-> TRUE] >>

\* The one way to cut s into a run of letters, a run of digits, a colon if
\* there is one, a run of letters, a run of digits, and the rest. The
\* character classes of neighbouring groups are disjoint, so a pattern
\* matches s exactly when its groups accept these runs.
Tokens(s) ==
    LET a == RunLen(s, Letters)
        b == a + RunLen(Drop(s, a + 1), Digits)
        colon == b < Len(s) /\ s[b + 1] = ":"
        c == (IF colon THEN b + 1 ELSE b)
                + RunLen(Drop(s, (IF colon THEN b + 1 ELSE b) + 1), Letters)
        d == c + RunLen(Drop(s, c + 1), Digits)
    IN  [sc |-> SubSeq(s, 1, a), sl |-> SubSeq(s, a + 1, b), colon |-> colon,
         ec |-> SubSeq(s, (IF colon THEN b + 2 ELSE b + 1), c),
         el |-> SubSeq(s, c + 1, d), rest |-> Drop(s, d + 1)]

\* Whether a group of a pattern, {1,most} of a class or empty, accepts g.
GroupMatches(present, most, g) ==
    IF present THEN Len(g) >= 1 /\ Len(g) <= most ELSE g = <<>>

\* re.match(p, s) for s cut into tk: the four groups, or None. "$" also
\* matches just before a trailing newline.
ReMatch(p, tk) ==
    IF /\ GroupMatches(p.sc, MaxColumnLetters, tk.sc)
       /\ GroupMatches(p.sl, MaxLineDigits, tk.sl)
       /\ p.colon = tk.colon
       /\ GroupMatches(p.ec, MaxColumnLetters, tk.ec)
       /\ GroupMatches(p.el, MaxLineDigits, tk.el)
       /\ tk.rest \in {<<>>, <<"\n">>}
    THEN Ok(<<tk.sc, tk.sl, tk.ec, tk.el>>)
    ELSE None

\* next(match for match in range_matcher if match), from pattern i on.
RECURSIVE FirstMatch(_, _)
FirstMatch(tk, i) ==
    IF i > Len(a1_allowed_regexp) THEN None
    ELSE IF ReMatch(a1_allowed_regexp[i], tk) # None THEN ReMatch(a1_allowed_regexp[i], tk)
    ELSE FirstMatch(tk, i + 1)

\* A variant that takes the start row without comparing the two rows.
line_number_start(start_line, end_line) ==
    IF start_line # <<>> THEN start_line
    ELSE IF end_line # <<>> THEN end_line
    ELSE <<"1">>

line_number(start_line, end_line) ==
    IF start_line # <<>> /\ end_line # <<>>
    THEN LET a == ToInt(start_line)
             b == ToInt(end_line)
         IN  Str(IF b < a THEN b ELSE a)
    ELSE IF start_line # <<>> THEN start_line
    ELSE IF end_line # <<>> THEN end_line
    ELSE <<"1">>

\* Lines 171 to 183: the header line of a match.
first_line_of(match) ==
    LET start_column == match.val[1]
        start_line == match.val[2]
        end_line == match.val[4]
        end_column == IF match.val[3] = <<>> /\ end_line = <<>>
                      THEN start_column ELSE match.val[3]
    IN  CHOOSE r \in {Ok(start_column \o line \o <<":">> \o end_column \o line) :
                       line \in {line_number(start_line, end_line)}} : TRUE

\* match = next(...): the first pattern matching s, which is cut once.
next_match(s) == CHOOSE r \in {FirstMatch(tk, 1) : tk \in {Tokens(s)}} : TRUE

\* A variant that falls back to the first line when no pattern matches.
get_first_line_range_lenient(range) ==
    IF range = None THEN Ok(<<"1", ":", "1">>)
    ELSE CHOOSE r \in {IF match = None THEN Ok(<<"1", ":", "1">>)
                       ELSE first_line_of(match) :
                       match \in {next_match(range.val)}} : TRUE

get_first_line_range(range) ==
    IF range = None THEN Ok(<<"1", ":", "1">>)
    ELSE CHOOSE r \in {IF match = None THEN Raised("ConfigValidationError")
                       ELSE first_line_of(match) :
                       match \in {next_match(range.val)}} : TRUE

(***************************************************************************)
(* utils.get_parsed_sheet_id                                               *)
(***************************************************************************)
MinIdLen == 40
MaxIdLen == 50

\* The character class [a-zA-Z0-9-_].
IdChars == Letters \cup Digits \cup {"-", "_"}

\* A variant whose lower length bound is exclusive.
IsSpreadsheetIdOver(s) ==
    /\ Len(s) > MinIdLen
    /\ Len(s) <= MaxIdLen
    /\ \A i \in 1..Len(s) : s[i] \in IdChars

\* re.fullmatch(r"[a-zA-Z0-9-_]{40,50}", s)
IsSpreadsheetId(s) ==
    /\ Len(s) >= MinIdLen
    /\ Len(s) <= MaxIdLen
    /\ \A i \in 1..Len(s) : s[i] \in IdChars

\* Whether "/d/" followed by a character of the class starts at position p.
PatternAt(s, p) ==
    /\ p + 3 <= Len(s)
    /\ s[p] = "/" /\ s[p + 1] = "d" /\ s[p + 2] = "/"
    /\ s[p + 3] \in IdChars

\* re.search(r"/d/([a-zA-Z0-9-_]+)", s) scanning from position p: group 1
\* of the leftmost match (the class's longest run), or None.
RECURSIVE ReSearch(_, _)
ReSearch(s, p) ==
    IF p > Len(s) THEN None
    ELSE IF PatternAt(s, p)
         THEN Ok(SubSeq(s, p + 3, p + 2 + RunLen(Drop(s, p + 3), IdChars)))
         ELSE ReSearch(s, p + 1)

get_parsed_sheet_id(s) ==
    IF IsSpreadsheetId(s) THEN Ok(s)
    ELSE IF ReSearch(s, 1) # None THEN ReSearch(s, 1)
    ELSE Raised("RuntimeError")

(***************************************************************************)
(* Header normalisation: re.sub(r"\s+", "_", h.strip())                    *)
(***************************************************************************)
\* The string without its leading whitespace.
LStrip(s) == Drop(s, RunLen(s, Whitespace) + 1)

\* The string without its trailing whitespace.
RECURSIVE RStrip(_)
RStrip(s) ==
    IF s = <<>> \/ s[Len(s)] \notin Whitespace THEN s
    ELSE RStrip(SubSeq(s, 1, Len(s) - 1))

Strip(s) == RStrip(LStrip(s))

\* re.sub(r"\s+", "_", s): every maximal run of whitespace becomes one "_".
RECURSIVE SubWhitespace(_)
SubWhitespace(s) ==
    IF s = <<>> THEN <<>>
    ELSE IF Head(s) \in Whitespace
         THEN <<"_">> \o SubWhitespace(Drop(s, RunLen(s, Whitespace) + 1))
         ELSE <<Head(s)>> \o SubWhitespace(Tail(s))

Normalize(h) == SubWhitespace(Strip(h))

(***************************************************************************)
(* TapGoogleSheets.get_schema                                              *)
(***************************************************************************)
\* The property names of the schema after the columns from i on are
\* appended to the names in acc. The schema's properties are a mapping
\* keyed by name: appending a name it already holds adds no key.
RECURSIVE AppendProperties(_, _, _)
AppendProperties(hdr, i, acc) ==
    IF i > Len(hdr) THEN acc
    ELSE LET column == hdr[i]
             name == Normalize(column)
         IN  IF column # <<>> /\ \A j \in 1..Len(acc) : acc[j] # name
             THEN AppendProperties(hdr, i + 1, Append(acc, name))
             ELSE AppendProperties(hdr, i + 1, acc)

\* get_schema on the response's JSON body: the ordered property names (each
\* of type string), or the exception of "headings, *data = json()['values']".
get_schema(body) ==
    IF "values" \notin DOMAIN body THEN Raised("KeyError")
    ELSE IF body.values = <<>> THEN Raised("ValueError")
    ELSE Ok(AppendProperties(Head(body.values), 1, <<>>))

(***************************************************************************)
(* GoogleSheetsStream.get_selected_columns and parse_response              *)
(***************************************************************************)
\* metadata is a set of entries [key, selected]; the key of a column's entry
\* is <<"properties", column_name>>, the stream's own entry has key <<>>.
get_selected_columns(md) ==
    {Normalize(e.key[2]) : e \in {x \in md : Len(x.key) = 2 /\ x.key[1] = "properties" /\ x.selected}}

normalized_headings(hdr) == [i \in 1..Len(hdr) |-> Normalize(hdr[i])]

selected_columns_set(hdr, md) ==
    IF get_selected_columns(md) # {} THEN get_selected_columns(md)
    ELSE {normalized_headings(hdr)[i] : i \in 1..Len(hdr)}

\* A variant that also leaves out the columns whose header is blank.
mask_named(hdr, md) ==
    [i \in 1..Len(hdr) |->
        Strip(hdr[i]) # <<>> /\ Normalize(hdr[i]) \in selected_columns_set(hdr, md)]

mask(hdr, md) ==
    [i \in 1..Len(hdr) |->
        hdr[i] # <<>> /\ Normalize(hdr[i]) \in selected_columns_set(hdr, md)]

\* A variant that stops at the shortest sequence, as zip does.
zip_shortest(m, hdr, values) ==
    LET n == IF Len(values) < Len(m) THEN Len(values) ELSE Len(m)
    IN  [i \in 1..n |-> [m |-> m[i], h |-> Ok(hdr[i]), v |-> Ok(values[i])]]

\* zip_longest(mask, headings, values): the triples, None filling the
\* shorter sequences.
zip_longest(m, hdr, values) ==
    LET n == IF Len(values) > Len(m) THEN Len(values) ELSE Len(m)
    IN  [i \in 1..n |->
            [m |-> IF i <= Len(m) THEN m[i] ELSE FALSE,
             h |-> IF i <= Len(hdr) THEN Ok(hdr[i]) ELSE None,
             v |-> IF i <= Len(values) THEN Ok(values[i]) ELSE None]]

\* dict(pairs) from pair i on, added to d: a later pair of the same key
\* replaces the value.
RECURSIVE DictOf(_, _, _)
DictOf(triples, i, d) ==
    IF i > Len(triples) THEN d
    ELSE LET t == triples[i]
         IN  IF t.m
             THEN DictOf(triples, i + 1,
                         (Normalize(t.h.val) :> (IF t.v = None THEN "" ELSE t.v.val)) @@ d)
             ELSE DictOf(triples, i + 1, d)

EmptyDict == [k \in {} |-> ""]

\* A variant that gives a row without cell values a record without keys.
data_row_skip_empty(hdr, values, md) ==
    IF values = <<>> THEN EmptyDict
    ELSE DictOf(zip_longest(mask(hdr, md), hdr, values), 1, EmptyDict)

\* One element of data_rows: the record built from one row of values.
data_row(hdr, values, md) ==
    DictOf(zip_longest(mask(hdr, md), hdr, values), 1, EmptyDict)

(***************************************************************************)
(* Specification of get_first_line_range over bounded range strings        *)
(***************************************************************************)
MaxRangeLen == 6
RangeAlphabet == {"C", "G", "1", "4", ":"}
RangePrefixes == {<<>>, <<"0">>}
RangeSuffixes == {<<>>, <<"\n">>}

RangeIdle == sheet_range = None /\ first_line = Pending
ResolveIdle == input_string = <<>> /\ parsed_id = Pending
RowIdle ==
    /\ headings = <<>> /\ row_values = <<>> /\ metadata = {}
    /\ stream_schema = Pending /\ row_record = Pending

ParseIdle ==
    /\ response = None /\ gen_pc = "idle" /\ data_rows = <<>>
    /\ stream_maps = <<>> /\ schema_messages = <<>> /\ yielded = <<>>

DiscIdle ==
    /\ config = None /\ disc_pc = "idle" /\ idx = 0 /\ stream_name = None
    /\ google_sheet_data = None /\ entry_schema = None
    /\ streams = <<>> /\ requests = <<>> /\ error = None

\* The range is absent, or any string over the alphabet up to the bound, or
\* a shorter one with a leading zero or a trailing newline.
RangeInit ==
    /\ \/ sheet_range = None
       \/ \E b \in SeqsUpTo(RangeAlphabet, MaxRangeLen) : sheet_range = Some(b)
       \/ \E p \in RangePrefixes, s \in RangeSuffixes :
            \E b \in SeqsUpTo(RangeAlphabet, MaxRangeLen - 2) :
                sheet_range = Some(p \o b \o s)
    /\ first_line = Pending
    /\ ResolveIdle /\ RowIdle /\ ParseIdle /\ DiscIdle

GetFirstLineRange ==
    /\ first_line = Pending
    /\ first_line' = get_first_line_range(sheet_range)
    /\ UNCHANGED <<sheet_range, resolveVars, rowVars, parseVars, discVars>>

RangeNext == GetFirstLineRange

SpecRange == RangeInit /\ [][RangeNext]_vars

(***************************************************************************)
(* Specification of get_parsed_sheet_id over bounded input strings         *)
(***************************************************************************)
MaxHeadLen == 4
MaxPad == 51
ResolveAlphabet == {"/", "d", "-", "."}

\* n copies of the character c.
Repeat(c, n) == [i \in 1..n |-> c]

\* What may follow the run: nothing, or the rest of a URL with a second
\* "/d/" place.
ResolveTails == { <<>>, <<"/", "d", "/", "d", ".">> }

\* A short head over the alphabet, a run of "a" of any length up to MaxPad,
\* so that lengths below, within and above 40..50 all occur, and a tail.
ResolveInputs ==
    {h \o Repeat("a", n) \o tl :
        h \in SeqsUpTo(ResolveAlphabet, MaxHeadLen), n \in 0..MaxPad, tl \in ResolveTails}

ResolveInit ==
    /\ input_string \in ResolveInputs
    /\ parsed_id = Pending
    /\ RangeIdle /\ RowIdle /\ ParseIdle /\ DiscIdle

GetParsedSheetId ==
    /\ parsed_id = Pending
    /\ parsed_id' = get_parsed_sheet_id(input_string)
    /\ UNCHANGED <<input_string, rangeVars, rowVars, parseVars, discVars>>

ResolveNext == GetParsedSheetId

SpecResolve == ResolveInit /\ [][ResolveNext]_vars

(***************************************************************************)
(* Claims about get_first_line_range (checked under SpecRange)             *)
(***************************************************************************)
\* The (start, line) pairs of presence flags of the eight A1 shapes, as
\* <<start_column, start_row, colon, end_column, end_row>>.
A1Shapes ==
    { <<TRUE, TRUE, FALSE, FALSE, FALSE>>, <<TRUE, FALSE, TRUE, TRUE, FALSE>>,
      <<FALSE, TRUE, TRUE, FALSE, TRUE>>,  <<TRUE, TRUE, TRUE, FALSE, TRUE>>,
      <<TRUE, TRUE, TRUE, TRUE, FALSE>>,   <<TRUE, TRUE, TRUE, TRUE, TRUE>>,
      <<TRUE, FALSE, TRUE, TRUE, TRUE>>,   <<FALSE, TRUE, TRUE, TRUE, TRUE>> }

IsColumn(s) == Len(s) <= MaxColumnLetters /\ \A i \in 1..Len(s) : s[i] \in Letters
IsRow(s) == Len(s) <= MaxLineDigits /\ \A i \in 1..Len(s) : s[i] \in Digits

\* The places <<a, b, c>> at which s may be cut into start_column (up to
\* a), start_row (up to b), a colon, end_column (up to c) and end_row.
A1Cuts(s) ==
    {t \in (0..Len(s)) \X (0..Len(s)) \X (0..Len(s)) :
        /\ t[1] <= t[2] /\ t[2] <= t[3]
        /\ t[2] < Len(s) => (s[t[2] + 1] = ":" /\ t[3] > t[2])
        /\ t[2] = Len(s) => t[3] = Len(s)}

A1Reading(s, t) ==
    [sc |-> SubSeq(s, 1, t[1]), sr |-> SubSeq(s, t[1] + 1, t[2]),
     colon |-> t[2] < Len(s),
     ec |-> SubSeq(s, t[2] + 2, t[3]), er |-> SubSeq(s, t[3] + 1, Len(s))]

\* The ways of reading s as start_column start_row [: end_column end_row]
\* in one of the eight shapes.
A1Readings(s) ==
    {A1Reading(s, t) : t \in
        {u \in A1Cuts(s) :
            LET r == A1Reading(s, u)
            IN  /\ IsColumn(r.sc) /\ IsRow(r.sr) /\ IsColumn(r.ec) /\ IsRow(r.er)
                /\ <<r.sc # <<>>, r.sr # <<>>, r.colon, r.ec # <<>>, r.er # <<>> >>
                        \in A1Shapes}}

\* The header line of a reading: the numeric minimum of the two rows, else
\* the one present, else 1.
HeaderLine(r) ==
    IF r.sr # <<>> /\ r.er # <<>>
    THEN CHOOSE l \in {Str(ToInt(r.sr)), Str(ToInt(r.er))} :
            ToInt(l) <= ToInt(r.sr) /\ ToInt(l) <= ToInt(r.er)
    ELSE IF r.sr # <<>> THEN r.sr
    ELSE IF r.er # <<>> THEN r.er
    ELSE <<"1">>

HeaderEndColumn(r) == IF r.ec = <<>> /\ r.er = <<>> THEN r.sc ELSE r.ec

\* C2: get_first_line_range returns "1:1" for an absent range, and for a
\* range in one of the eight A1 shapes returns
\* start_column line ":" end_column' line, with line the numeric minimum of
\* the rows present (1 when none is) and end_column' the start column when
\* neither end column nor end row is given; so "C4:G14" gives "C4:G4",
\* "C4" gives "C4:C4" and "1:4" gives "1:1".
C2_FirstLineRange ==
    first_line # Pending =>
        /\ sheet_range = None => first_line = Ok(<<"1", ":", "1">>)
        /\ sheet_range # None =>
            \A r \in A1Readings(sheet_range.val) :
                first_line =
                    Ok(r.sc \o HeaderLine(r) \o <<":">> \o HeaderEndColumn(r) \o HeaderLine(r))
        /\ sheet_range = Some(<<"C", "4", ":", "G", "1", "4">>)
            => first_line = Ok(<<"C", "4", ":", "G", "4">>)
        /\ sheet_range = Some(<<"C", "4">>) => first_line = Ok(<<"C", "4", ":", "C", "4">>)
        /\ sheet_range = Some(<<"1", ":", "4">>) => first_line = Ok(<<"1", ":", "1">>)

\* A full box whose end row is the smaller one has been converted.
C2_Witness ==
    /\ first_line # Pending
    /\ sheet_range = Some(<<"C", "4", "1", ":", "G", "4">>)
    /\ first_line = Ok(<<"C", "4", ":", "G", "4">>)

(***************************************************************************)
(* Claims about get_parsed_sheet_id (checked under SpecResolve)            *)
(***************************************************************************)
\* Whether s holds "/d/" followed by a non-empty run of [A-Za-z0-9-_] that
\* starts at position p + 3.
IdRunAfter(s, p) ==
    /\ p >= 1 /\ p + 3 <= Len(s)
    /\ SubSeq(s, p, p + 2) = <<"/", "d", "/">>
    /\ s[p + 3] \in IdChars

\* Whether id is the whole run of [A-Za-z0-9-_] that starts at position q.
IsRunAt(s, q, id) ==
    /\ id # <<>>
    /\ q + Len(id) - 1 <= Len(s)
    /\ SubSeq(s, q, q + Len(id) - 1) = id
    /\ \A i \in 1..Len(id) : id[i] \in IdChars
    /\ q + Len(id) <= Len(s) => s[q + Len(id)] \notin IdChars

IsCanonicalId(s) ==
    /\ Len(s) \in MinIdLen..MaxIdLen
    /\ {s[i] : i \in 1..Len(s)} \subseteq IdChars

\* C9: a string of 40 to 50 characters of [A-Za-z0-9-_] is returned
\* unchanged; otherwise a string holding /d/<id>, <id> a non-empty run of
\* [A-Za-z0-9-_], gives the <id> of its first such place; otherwise the
\* call raises the error and returns nothing.
C9_Resolve ==
    parsed_id # Pending =>
        IF IsCanonicalId(input_string) THEN parsed_id = Ok(input_string)
        ELSE IF \E p \in 1..Len(input_string) : IdRunAfter(input_string, p)
        THEN \E p \in 1..Len(input_string) :
                /\ IdRunAfter(input_string, p)
                /\ \A q \in 1..(p - 1) : ~IdRunAfter(input_string, q)
                /\ parsed_id.tag = "ok"
                /\ IsRunAt(input_string, p + 3, parsed_id.val)
        ELSE parsed_id = Raised("RuntimeError")

\* A sharing URL with two "/d/" places, neither a canonical id, has been
\* resolved to the 45 characters after the first.
C9_Witness ==
    /\ input_string = <<".", "/", "d", "/">> \o Repeat("a", 45) \o <<"/", "d", "/", "d", ".">>
    /\ parsed_id = Ok(Repeat("a", 45))

(***************************************************************************)
(* Specification of get_schema and of parse_response's record for one row, *)
(* over bounded header rows, data rows and catalog metadata                *)
(***************************************************************************)
MaxCols == 3

\* An empty cell, a blank one, a plain name, and two cells that normalise
\* to the same name "a_b".
HeaderCells ==
    { <<>>, <<" ">>, <<"a">>, <<"a", " ", "b">>, <<"a", "\t", " ", "b", " ">> }
CellValues == {"", "1"}
\* The catalog's column names: a name and one with a space to trim.
MetaCols == { <<"a">>, <<" ", "a", "_", "b">> }

Metadatas ==
    {{[key |-> <<>>, selected |-> TRUE]}
        \cup {[key |-> <<"properties", c>>, selected |-> f[c]] : c \in MetaCols} :
            f \in [MetaCols -> BOOLEAN]}

RowInit ==
    /\ headings \in SeqsUpTo(HeaderCells, MaxCols)
    /\ row_values \in SeqsUpTo(CellValues, MaxCols + 1)
    /\ metadata \in Metadatas
    /\ stream_schema = Pending
    /\ row_record = Pending
    /\ RangeIdle /\ ResolveIdle /\ ParseIdle /\ DiscIdle

\* Discovery: the schema of the header row.
GetSchema ==
    /\ stream_schema = Pending
    /\ stream_schema' = get_schema([values |-> <<headings>>, range |-> <<>>])
    /\ UNCHANGED <<headings, row_values, metadata, row_record, rangeVars, resolveVars,
                   parseVars, discVars>>

\* Sync: the record of the data row.
ParseRow ==
    /\ stream_schema # Pending
    /\ row_record = Pending
    /\ row_record' = Ok(data_row(headings, row_values, metadata))
    /\ UNCHANGED <<headings, row_values, metadata, stream_schema, rangeVars, resolveVars,
                   parseVars, discVars>>

RowNext == GetSchema \/ ParseRow

SpecRows == RowInit /\ [][RowNext]_vars

(***************************************************************************)
(* Specification of parse_response as a generator that is consumed to its  *)
(* end: unpack, build the records, re-apply the schema to the stream maps, *)
(* write the schema message, then yield the records one by one             *)
(***************************************************************************)
MaxRows == 2

\* The stream's name and schema, and the schema a map holds beforehand.
StreamName == "sheet"
StreamSchema == "schema"
CachedSchema == "cached"

ParseHeaders ==
    { <<>>,
      << <<"a">> >>,
      << <<"a">>, <<>>, <<"a", " ", "b">> >>,
      << <<" ">>, <<"a", " ", "b">>, <<"a", "\t", " ", "b", " ">> >> }
ParseRows == { <<>>, <<"1">>, <<"1", "", "1", "1">> }

\* Well-formed bodies, and bodies without "values" or without a header row.
Responses ==
    {[values |-> <<h>> \o d, range |-> <<>>] :
        h \in ParseHeaders, d \in SeqsUpTo(ParseRows, MaxRows)}
    \cup {[range |-> <<>>], [values |-> <<>>, range |-> <<>>]}

StreamMapsPool ==
    { <<>>,
      << [stream_alias |-> StreamName, transformed_schema |-> CachedSchema] >>,
      << [stream_alias |-> "other", transformed_schema |-> CachedSchema],
         [stream_alias |-> StreamName, transformed_schema |-> CachedSchema] >> }

ParseInit ==
    /\ response \in Responses
    /\ metadata \in Metadatas
    /\ stream_maps \in StreamMapsPool
    /\ gen_pc = "start"
    /\ data_rows = <<>> /\ schema_messages = <<>> /\ yielded = <<>>
    /\ headings = <<>> /\ row_values = <<>>
    /\ stream_schema = Pending /\ row_record = Pending
    /\ RangeIdle /\ ResolveIdle /\ DiscIdle

\* Whether "headings, *data = response.json()['values']" succeeds.
Unpacks(body) == "values" \in DOMAIN body /\ body.values # <<>>

\* streams.py line 54, failing: the lookup or the unpacking raises.
UnpackFails ==
    /\ gen_pc = "start"
    /\ ~Unpacks(response)
    /\ gen_pc' = "raised"
    /\ UNCHANGED <<response, data_rows, stream_maps, schema_messages, yielded,
                   rangeVars, resolveVars, rowVars, discVars>>

\* streams.py lines 54 to 72: the records of all data rows are built.
BuildDataRows ==
    /\ gen_pc = "start"
    /\ Unpacks(response)
    /\ data_rows' = [j \in 1..(Len(response.values) - 1) |->
                        data_row(Head(response.values), response.values[j + 1], metadata)]
    /\ gen_pc' = "built"
    /\ UNCHANGED <<response, stream_maps, schema_messages, yielded,
                   rangeVars, resolveVars, rowVars, discVars>>

\* A variant that compares the aliases the wrong way round.
apply_schema_others(maps) ==
    [j \in 1..Len(maps) |->
        IF maps[j].stream_alias # StreamName
        THEN [maps[j] EXCEPT !.transformed_schema = StreamSchema]
        ELSE maps[j]]

apply_schema(maps) ==
    [j \in 1..Len(maps) |->
        IF maps[j].stream_alias = StreamName
        THEN [maps[j] EXCEPT !.transformed_schema = StreamSchema]
        ELSE maps[j]]

\* streams.py lines 75 to 77: the stream's maps get the stream's schema.
ApplyStreamMaps ==
    /\ gen_pc = "built"
    /\ stream_maps' = apply_schema(stream_maps)
    /\ gen_pc' = "mapped"
    /\ UNCHANGED <<response, data_rows, schema_messages, yielded,
                   rangeVars, resolveVars, rowVars, discVars>>

\* streams.py line 80: self._write_schema_message()
WriteSchemaMessage ==
    /\ gen_pc = "mapped"
    /\ schema_messages' = Append(schema_messages, StreamSchema)
    /\ gen_pc' = "yielding"
    /\ UNCHANGED <<response, data_rows, stream_maps, yielded,
                   rangeVars, resolveVars, rowVars, discVars>>

\* The next element the generator is to yield.
next_record == data_rows[Len(yielded) + 1]

\* streams.py line 82: the consumer takes the next record.
YieldRecord ==
    /\ gen_pc = "yielding"
    /\ Len(yielded) < Len(data_rows)
    /\ yielded' = Append(yielded, next_record)
    /\ UNCHANGED <<response, gen_pc, data_rows, stream_maps, schema_messages,
                   rangeVars, resolveVars, rowVars, discVars>>

\* streams.py line 82: the records are exhausted and the generator returns.
Finish ==
    /\ gen_pc = "yielding"
    /\ Len(yielded) = Len(data_rows)
    /\ gen_pc' = "done"
    /\ UNCHANGED <<response, data_rows, stream_maps, schema_messages, yielded,
                   rangeVars, resolveVars, rowVars, discVars>>

ParseNext ==
    \/ UnpackFails \/ BuildDataRows \/ ApplyStreamMaps
    \/ WriteSchemaMessage \/ YieldRecord \/ Finish

SpecParse == ParseInit /\ [][ParseNext]_vars

(***************************************************************************)
(* Claims about the schema and the records (checked under SpecRows)        *)
(***************************************************************************)
\* The selection set handed to the row normaliser.
Selection == get_selected_columns(metadata)

NonEmptyColumnsOf(hdr) == {i \in 1..Len(hdr) : hdr[i] # <<>>}

\* The effective selection: the selection, or every normalised non-empty
\* header name when the selection is empty.
EffectiveSelectionOf(hdr) ==
    IF Selection # {} THEN Selection
    ELSE {Normalize(hdr[i]) : i \in NonEmptyColumnsOf(hdr)}

IncludedColumnsOf(hdr) ==
    {i \in NonEmptyColumnsOf(hdr) : Normalize(hdr[i]) \in EffectiveSelectionOf(hdr)}

NonEmptyColumns == NonEmptyColumnsOf(headings)
IncludedColumns == IncludedColumnsOf(headings)

ValueAt(i) == IF i <= Len(row_values) THEN row_values[i] ELSE ""

\* The last included column that carries the name k.
LastColumnNamed(k) ==
    CHOOSE i \in IncludedColumns :
        /\ Normalize(headings[i]) = k
        /\ \A j \in IncludedColumns : Normalize(headings[j]) = k => j <= i

\* C3 as stated: the record's keys are the normalised names of the included
\* columns, and every included column i has its name mapped to the row's
\* value at i (the empty string when the row is shorter).
C3_RecordPerColumn ==
    row_record # Pending =>
        /\ DOMAIN row_record.val = {Normalize(headings[i]) : i \in IncludedColumns}
        /\ \A i \in IncludedColumns :
                row_record.val[Normalize(headings[i])] = ValueAt(i)

\* C3 amended: the record's keys are the normalised names of the included
\* columns, and each key is mapped to the row's value at the last included
\* column of that name (the empty string when the row is shorter); values
\* beyond the header are dropped.
C3_RecordLastColumn ==
    row_record # Pending =>
        /\ DOMAIN row_record.val = {Normalize(headings[i]) : i \in IncludedColumns}
        /\ \A k \in DOMAIN row_record.val :
                row_record.val[k] = ValueAt(LastColumnNamed(k))

\* A record built from a row shorter than a header with a selected column.
C3_Witness ==
    /\ row_record # Pending
    /\ Len(row_values) < Len(headings)
    /\ Selection # {}
    /\ \E i \in IncludedColumns : i > Len(row_values)
    /\ \E i \in NonEmptyColumns : i \notin IncludedColumns

\* The header cells that are neither empty nor blank.
NamedColumns == {i \in 1..Len(headings) : Strip(headings[i]) # <<>>}

\* The names of the columns of S from column i on, in column order.
RECURSIVE NamesFrom(_, _)
NamesFrom(S, i) ==
    IF i > Len(headings) THEN <<>>
    ELSE IF i \in S THEN <<Normalize(headings[i])>> \o NamesFrom(S, i + 1)
    ELSE NamesFrom(S, i + 1)

\* C5: the schema has no field for an empty or blank header cell and
\* exactly one field, named by the normalised header, for every other cell,
\* in column order.
C5_SchemaFields ==
    stream_schema # Pending => stream_schema = Ok(NamesFrom(NamedColumns, 1))

\* C10: with an empty selection the keys of a record are the field names of
\* the schema inferred from the same header row, and with any selection
\* they are among them.
C10_KeysAreSchemaFields ==
    (row_record # Pending /\ stream_schema.tag = "ok") =>
        LET fields == {stream_schema.val[j] : j \in 1..Len(stream_schema.val)}
        IN  /\ Selection = {} => DOMAIN row_record.val = fields
            /\ DOMAIN row_record.val \subseteq fields

\* A record built, with nothing selected, from a header row holding a blank
\* cell and two cells of the same normalised name.
C10_Witness ==
    /\ row_record # Pending
    /\ Selection = {}
    /\ \E i \in 1..Len(headings) : headings[i] # <<>> /\ Strip(headings[i]) = <<>>
    /\ \E i, j \in 1..Len(headings) :
            i # j /\ headings[i] # <<>> /\ Normalize(headings[i]) = Normalize(headings[j])

(***************************************************************************)
(* Claims about parse_response as a generator (checked under SpecParse)    *)
(***************************************************************************)
MapsApplied ==
    \A j \in 1..Len(stream_maps) :
        stream_maps[j].stream_alias = StreamName
            => stream_maps[j].transformed_schema = StreamSchema

MapsUntouched ==
    \A j \in 1..Len(stream_maps) : stream_maps[j].transformed_schema = CachedSchema

WellFormed == "values" \in DOMAIN response /\ Len(response.values) >= 1

\* C8: over a well-formed response the schema is re-published (the stream's
\* maps updated, one schema message written) exactly once, before the first
\* record is yielded and also when there is no data row; over a malformed
\* response the run fails before any publication or record.
C8_SchemaOnceBeforeRecords ==
    /\ Len(schema_messages) <= 1
    /\ yielded # <<>> => (Len(schema_messages) = 1 /\ MapsApplied)
    /\ gen_pc = "done" => (WellFormed /\ Len(schema_messages) = 1 /\ MapsApplied)
    /\ gen_pc = "raised" => ~WellFormed
    /\ ~WellFormed =>
        /\ gen_pc \in {"start", "raised"}
        /\ schema_messages = <<>> /\ yielded = <<>> /\ MapsUntouched

\* A consumed run over a response without data rows, with a map to update.
C8_Witness ==
    /\ gen_pc = "done"
    /\ Len(response.values) = 1
    /\ Len(schema_messages) = 1
    /\ \E j \in 1..Len(stream_maps) : stream_maps[j].transformed_schema = StreamSchema

EmptyRows == {j \in 1..Len(yielded) : response.values[j + 1] = <<>>}

\* C4 as stated: every data row yields a record, and the record of a row
\* without cell values has no keys.
C4_EmptyRowEmptyRecord ==
    gen_pc = "done" =>
        /\ Len(yielded) = Len(response.values) - 1
        /\ \A j \in EmptyRows : DOMAIN yielded[j] = {}

\* C4 amended: every data row yields a record, and the record of a row
\* without cell values maps the normalised name of every included column to
\* the empty string (it has no keys only when no column is included).
C4_EmptyRowBlankRecord ==
    gen_pc = "done" =>
        /\ Len(yielded) = Len(response.values) - 1
        /\ \A j \in EmptyRows :
            LET hdr == Head(response.values)
            IN  yielded[j] =
                    [k \in {Normalize(hdr[i]) : i \in IncludedColumnsOf(hdr)} |-> ""]

\* A consumed run that yielded, between two other records, a record with
\* keys for a row without cell values.
C4_Witness ==
    /\ gen_pc = "done"
    /\ \E j \in EmptyRows : DOMAIN yielded[j] # {}
    /\ \E j \in 1..Len(yielded) : j \notin EmptyRows

(***************************************************************************)
(* Specification of discover_streams followed by the streams' requests     *)
(***************************************************************************)
MaxSheets == 2

\* A canonical id, a sharing URL and a string that is neither.
BareId == Repeat("a", MinIdLen)
UrlId == <<"h", ":", "/", "d", "/", "a", "b", "/", "e">>
BadId == <<".">>

BoxRange == <<"C", "4", ":", "G", "1", "4">>
BadRange == <<"4", "C">>
OutputName == <<"o", " ", "o">>
Tab == <<"T", "2">>

Entry(id, name, child, keys, range) ==
    [sheet_id |-> id, output_name |-> name, child_sheet_name |-> child,
     key_properties |-> keys, range |-> range]

Entries ==
    { Entry(BareId, None, None, <<>>, None),
      Entry(UrlId, Some(OutputName), Some(Tab), <<"a">>, Some(BoxRange)),
      Entry(UrlId, None, None, <<>>, Some(BadRange)),
      Entry(BareId, Some(OutputName), None, <<>>, Some(BadRange)),
      Entry(BadId, Some(OutputName), None, <<>>, Some(BadRange)),
      Entry(BareId, Some(<<>>), None, <<>>, None),
      Entry(BadId, None, None, <<>>, None) }

\* The top level of a configuration that lists its sheets.
NoEntry == Entry(<<>>, None, None, <<>>, None)

Configs ==
    {[sheets |-> Some(s), entry |-> NoEntry] :
        s \in SeqsUpTo(Entries, MaxSheets) \ {<<>>}}
    \cup {[sheets |-> s, entry |-> e] : s \in {None, Some(<<>>)}, e \in Entries}

\* The replies of the remote service: a failed request, and JSON bodies.
HttpFailure == [tag |-> "failure"]
MetadataBodies ==
    { [id |-> "file"],
      [id |-> "file", title |-> <<>>],
      [id |-> "file", title |-> <<"t", " ", "t">>] }
ValuesBodies ==
    { [range |-> <<"T", "!", "1", "!", "A", "1">>, values |-> << <<<<"a">>, <<" ">>>> >>],
      [range |-> <<"T", "!", "1", "!", "A", "1">>] }

\* bool(x) of an optional string.
Truthy(x) == x # None /\ x.val # <<>>

\* s.replace(" ", "_")
replace_spaces(s) == [i \in 1..Len(s) |-> IF s[i] = " " THEN "_" ELSE s[i]]

\* s.rsplit("!", 1)[0]: s up to its last "!", the whole of s without one.
rsplit_first(s) ==
    LET bangs == {i \in 1..Len(s) : s[i] = "!"}
    IN  IF bangs = {} THEN s
        ELSE SubSeq(s, 1, (CHOOSE i \in bangs : \A j \in bangs : j <= i) - 1)

\* self.config.get("sheets") or [self.config]
sheets ==
    IF config.sheets # None /\ config.sheets.val # <<>> THEN config.sheets.val
    ELSE <<config.entry>>

stream_config == sheets[idx]

Request(kind, phase, entry, spreadsheet, sheet, range, reply) ==
    [kind |-> kind, phase |-> phase, entry |-> entry, spreadsheet |-> spreadsheet,
     sheet |-> sheet, range |-> range, reply |-> reply]

DiscInit ==
    /\ config \in Configs
    /\ disc_pc = "name" /\ idx = 1
    /\ stream_name = None /\ google_sheet_data = None /\ entry_schema = None
    /\ streams = <<>> /\ requests = <<>> /\ error = None
    /\ RangeIdle /\ ResolveIdle /\ RowIdle /\ ParseIdle

Raise(e) == disc_pc' = "raised" /\ error' = Raised(e)

\* tap.py line 100, left operand, and line 101: the configured output name.
UseOutputName ==
    /\ disc_pc = "name"
    /\ Truthy(stream_config.output_name)
    /\ stream_name' = Some(replace_spaces(stream_config.output_name.val))
    /\ disc_pc' = "data"
    /\ UNCHANGED <<config, idx, google_sheet_data, entry_schema, streams, requests, error,
                   rangeVars, resolveVars, rowVars, parseVars>>

\* tap.py line 100, right operand (get_sheet_name), and line 101: the title
\* of the spreadsheet, asked of the remote service.
GetSheetName ==
    /\ disc_pc = "name"
    /\ ~Truthy(stream_config.output_name)
    /\ LET id == get_parsed_sheet_id(stream_config.sheet_id)
       IN  IF id.tag = "raised"
           THEN /\ Raise(id.exc)
                /\ UNCHANGED <<stream_name, requests>>
           ELSE \E reply \in {HttpFailure} \cup {Ok(b) : b \in MetadataBodies} :
                /\ requests' = Append(requests,
                        Request("metadata", "discover", idx, id.val, None, None, reply))
                /\ IF reply = HttpFailure
                   THEN Raise("RequestError") /\ UNCHANGED stream_name
                   ELSE IF "title" \notin DOMAIN reply.val
                   THEN Raise("AttributeError") /\ UNCHANGED stream_name
                   ELSE /\ stream_name' = Some(replace_spaces(reply.val.title))
                        /\ disc_pc' = "data"
                        /\ UNCHANGED error
    /\ UNCHANGED <<config, idx, google_sheet_data, entry_schema, streams,
                   rangeVars, resolveVars, rowVars, parseVars>>

\* tap.py line 104 (get_sheet_data): the path is built, identifier first and
\* range last, and then the header line is requested.
GetSheetData ==
    /\ disc_pc = "data"
    /\ LET id == get_parsed_sheet_id(stream_config.sheet_id)
           child == IF stream_config.child_sheet_name = None THEN <<>>
                    ELSE stream_config.child_sheet_name.val
           line == get_first_line_range(stream_config.range)
       IN  IF id.tag = "raised"
           THEN Raise(id.exc) /\ UNCHANGED <<google_sheet_data, requests>>
           ELSE IF line.tag = "raised"
           THEN Raise(line.exc) /\ UNCHANGED <<google_sheet_data, requests>>
           ELSE \E reply \in {HttpFailure} \cup {Ok(b) : b \in ValuesBodies} :
                /\ requests' = Append(requests,
                        Request("values", "discover", idx, id.val, child, Some(line.val), reply))
                /\ IF reply = HttpFailure
                   THEN Raise("RequestError") /\ UNCHANGED google_sheet_data
                   ELSE /\ google_sheet_data' = reply
                        /\ disc_pc' = "schema"
                        /\ UNCHANGED error
    /\ UNCHANGED <<config, idx, stream_name, entry_schema, streams,
                   rangeVars, resolveVars, rowVars, parseVars>>

\* tap.py line 106: the schema of the header line.
InferSchema ==
    /\ disc_pc = "schema"
    /\ LET schema == get_schema(google_sheet_data.val)
       IN  IF schema.tag = "raised"
           THEN Raise(schema.exc) /\ UNCHANGED entry_schema
           ELSE entry_schema' = schema /\ disc_pc' = "append" /\ UNCHANGED error
    /\ UNCHANGED <<config, idx, stream_name, google_sheet_data, streams, requests,
                   rangeVars, resolveVars, rowVars, parseVars>>

\* tap.py lines 108 to 118: the tab to read, and the stream if it has a name.
AppendStream ==
    /\ disc_pc = "append"
    /\ LET child == IF Truthy(stream_config.child_sheet_name)
                    THEN stream_config.child_sheet_name.val
                    ELSE rsplit_first(google_sheet_data.val.range)
       IN  streams' = IF stream_name.val # <<>>
                      THEN Append(streams,
                                [name |-> stream_name.val, schema |-> entry_schema.val,
                                 child_sheet_name |-> child,
                                 primary_keys |-> stream_config.key_properties,
                                 stream_config |-> stream_config, entry |-> idx])
                      ELSE streams
    /\ IF idx < Len(sheets)
       THEN idx' = idx + 1 /\ disc_pc' = "name"
       ELSE idx' = idx /\ disc_pc' = "done"
    /\ stream_name' = None /\ google_sheet_data' = None /\ entry_schema' = None
    /\ UNCHANGED <<config, requests, error,
                   rangeVars, resolveVars, rowVars, parseVars>>

\* The streams whose records have been requested.
Synced == Cardinality({i \in 1..Len(requests) : requests[i].phase = "sync"})

\* GoogleSheetsStream.path: the raw sheet_id, the tab and, if given, the range.
path(stream) ==
    [spreadsheet |-> stream.stream_config.sheet_id,
     sheet |-> stream.child_sheet_name,
     range |-> IF Truthy(stream.stream_config.range) THEN stream.stream_config.range
               ELSE None]

\* The sync of the next discovered stream: its records are requested at
\* url_base + path.
RequestRecords ==
    /\ disc_pc = "done"
    /\ Synced < Len(streams)
    /\ LET stream == streams[Synced + 1]
       IN  requests' = Append(requests,
                Request("values", "sync", stream.entry, path(stream).spreadsheet,
                        path(stream).sheet, path(stream).range, None))
    /\ UNCHANGED <<config, disc_pc, idx, stream_name, google_sheet_data, entry_schema,
                   streams, error, rangeVars, resolveVars, rowVars, parseVars>>

DiscNext ==
    \/ UseOutputName \/ GetSheetName \/ GetSheetData
    \/ InferSchema \/ AppendStream \/ RequestRecords

SpecDiscover == DiscInit /\ [][DiscNext]_vars

(***************************************************************************)
(* Claims about discovery and the requests (checked under SpecDiscover)    *)
(***************************************************************************)
\* Whether a range string is in one of the eight A1 shapes, as the patterns
\* decide it (a newline may follow).
MatchesA1(s) ==
    \/ A1Readings(s) # {}
    \/ s # <<>> /\ s[Len(s)] = "\n" /\ A1Readings(SubSeq(s, 1, Len(s) - 1)) # {}

RangeInvalid(e) == e.range # None /\ ~MatchesA1(e.range.val)

IdResolves(e) == IsCanonicalId(e.sheet_id) \/ \E p \in 1..Len(e.sheet_id) : IdRunAfter(e.sheet_id, p)

ConfigValidationError == Raised("ConfigValidationError")

RequestsOf(i, kind, phase) ==
    {k \in 1..Len(requests) :
        requests[k].entry = i /\ requests[k].kind = kind /\ requests[k].phase = phase}

\* C1 as stated: discovery does not complete when an entry's range is in
\* none of the eight shapes, and when it fails with ConfigValidationError no
\* HTTP request at all has been issued.
C1_NoRequestBeforeRangeError ==
    /\ disc_pc = "done" => \A i \in 1..Len(sheets) : ~RangeInvalid(sheets[i])
    /\ error = ConfigValidationError => requests = <<>>

\* C1 amended: discovery does not complete when an entry's range is in none
\* of the eight shapes; it fails with ConfigValidationError when it comes to
\* fetch the header of such an entry whose identifier resolves, before that
\* entry's values request and before any stream's data request. By then the
\* title lookup of that entry (if it has no output name) and the header
\* request of every earlier entry have been issued.
C1_NoValuesRequestForInvalidRange ==
    /\ disc_pc = "done" => \A i \in 1..Len(sheets) : ~RangeInvalid(sheets[i])
    /\ \A k \in 1..Len(requests) :
            requests[k].kind = "values" => ~RangeInvalid(sheets[requests[k].entry])
    /\ (/\ disc_pc = "raised" /\ stream_name # None /\ google_sheet_data = None
        /\ IdResolves(stream_config) /\ RangeInvalid(stream_config))
            => error = ConfigValidationError
    /\ error = ConfigValidationError =>
        /\ RangeInvalid(stream_config)
        /\ RequestsOf(idx, "values", "discover") = {}
        /\ \A k \in 1..Len(requests) : requests[k].phase = "discover"
        /\ \A i \in 1..(idx - 1) : RequestsOf(i, "values", "discover") # {}
        /\ ~Truthy(stream_config.output_name)
                => RequestsOf(idx, "metadata", "discover") = {Len(requests)}

\* Discovery failed with ConfigValidationError at its second entry, after
\* the header request of the first entry and the title lookup of the second.
C1_Witness ==
    /\ error = ConfigValidationError
    /\ idx = 2
    /\ RequestsOf(1, "values", "discover") # {}
    /\ RequestsOf(2, "metadata", "discover") # {}

\* C6: every values request, the header request of discovery and the data
\* request of the stream, addresses the spreadsheet resolve(sheet_id) of its
\* entry, so the two requests of an entry address the same identifier.
C6_SameSpreadsheet ==
    \A k \in 1..Len(requests) :
        requests[k].kind = "values" =>
            requests[k].spreadsheet = get_parsed_sheet_id(sheets[requests[k].entry].sheet_id).val

\* The title the remote service gave for entry i, None without one.
TitleOf(i) ==
    LET k == CHOOSE k \in RequestsOf(i, "metadata", "discover") : TRUE
    IN  IF "title" \in DOMAIN requests[k].reply.val THEN Some(requests[k].reply.val.title)
        ELSE None

\* The resolved stream name of entry i: the output name, else the title.
ResolvedName(i) ==
    IF Truthy(sheets[i].output_name) THEN sheets[i].output_name ELSE TitleOf(i)

\* The entries from i on whose resolved name is not empty, in order.
RECURSIVE NamedEntries(_)
NamedEntries(i) ==
    IF i > Len(sheets) THEN <<>>
    ELSE IF Truthy(ResolvedName(i)) THEN <<i>> \o NamedEntries(i + 1)
    ELSE NamedEntries(i + 1)

DiscoveredEntries == [k \in 1..Len(streams) |-> streams[k].entry]

\* C7: discovery fails only on an identifier, a range, a fetch or a response
\* body, never on the name of an entry; and when it completes it has one
\* stream, in configuration order, for each entry whose resolved name is
\* not empty, the entries with an empty or absent name being skipped.
C7_OneStreamPerNamedEntry ==
    /\ disc_pc = "raised" =>
        error.exc \in {"RuntimeError", "ConfigValidationError", "RequestError",
                       "KeyError", "ValueError"}
    /\ disc_pc = "done" => DiscoveredEntries = NamedEntries(1)

=============================================================================
